---- MODULE Spec2Model ----
(***************************************************************************)
(* State-machine model of src/infra/tcp_server.rs: the /authorize token    *)
(* issuer (post_authorize, create_jwt), the cookie bridge and the bearer   *)
(* authentication gate in front of the /api scope (http_config,            *)
(* token_validator), the protected handler (user_list_handler) and the     *)
(* error mapper (error_to_http_response).                                  *)
(*                                                                         *)
(* Time is counted in ticks; one day is Day ticks.  An HMAC is modelled    *)
(* symbolically: the tag of a message under a key is the pair of both, so  *)
(* a tag can only be produced by whoever holds the key.                    *)
(***************************************************************************)
EXTENDS Integers, Sequences, FiniteSets, TLC

\* ------------------------------------------------------------------ bounds
MaxClock == 2
MaxIssued == 2

\* --------------------------------------------------------------- constants
Day == 1
Workers == {1, 2}
Users == {"alice", "bob"}
jwt_secret == "secret"
OtherSecret == "other"
AdminGroup == "lldap_admin"
MsgInvalid == "Invalid JWT"
MsgExpired == "Expired JWT"
MsgNotInGroup == "JWT error: User is not in group lldap_admin"
MsgBadCookie == "Invalid token cookie"
MsgBadJson == "Json deserialize error"

None == <<>>
Some(x) == <<x>>

\* ----------------------------------------------------------------- state
VARIABLES now, workers, groupsOf, issued, auth, last

vars == <<now, workers, groupsOf, issued, auth, last>>

\* --------------------------------------------------------- token algebra
\* Hmac::new_varkey(jwt_secret.as_bytes()): the key is a function of the
\* secret alone.
HmacNewVarkey(secret) == <<"hmac-sha512", secret>>

\* The HMAC tag of the signing input (header "." payload) under a key.
HmacTag(key, alg, exp, user, groups) == <<key, alg, exp, user, groups>>

GarbageSig == <<>>

\* The orders in which a HashSet<String> may be written out as a JSON array.
Serializations(S) ==
    {q \in UNION {[1..n -> S] : n \in {Cardinality(S)}} :
        {q[i] : i \in DOMAIN q} = S}

\* Reading a JSON array back into a HashSet<String>.
DeserializeGroups(q) == {q[i] : i \in DOMAIN q}

\* Token::new(header, claims).sign_with_key(key): a compact token string.
\* ctl says whether the string holds a byte that is illegal in a header
\* value; a token the server signs is base64url text and has none.
SignWithKey(key, alg, exp, user, groupSeq) ==
    [alg |-> alg, exp |-> exp, user |-> user, groups |-> groupSeq,
     sig |-> HmacTag(key, alg, exp, user, groupSeq), ctl |-> FALSE]

\* create_jwt with the day subtracted instead of added.
create_jwt_past(key, user, groups, order, t) ==
    SignWithKey(key, "HS512", t - Day, user, order)

create_jwt(key, user, groups, order, t) ==
    SignWithKey(key, "HS512", t + Day, user, order)

\* A string that is not a three-part token at all.
Garbage ==
    [alg |-> "garbage", exp |-> 0, user |-> "", groups |-> <<>>,
     sig |-> GarbageSig, ctl |-> FALSE]

\* verify_with_key that accepts a tag made with any key.
VerifyWithKey_anykey(tok, key) ==
    IF tok.ctl \/ tok.alg = "garbage" THEN [ok |-> FALSE]
    ELSE IF tok.alg # "HS512" THEN [ok |-> FALSE]
    ELSE IF \A s \in {jwt_secret, OtherSecret} :
               tok.sig # HmacTag(HmacNewVarkey(s), tok.alg, tok.exp, tok.user, tok.groups)
         THEN [ok |-> FALSE]
    ELSE [ok |-> TRUE, exp |-> tok.exp, user |-> tok.user,
          groups |-> DeserializeGroups(tok.groups)]

\* verify_with_key that parses the token and never compares the tag.
VerifyWithKey_nosig(tok, key) ==
    IF tok.ctl \/ tok.alg = "garbage" THEN [ok |-> FALSE]
    ELSE IF tok.alg # "HS512" THEN [ok |-> FALSE]
    ELSE [ok |-> TRUE, exp |-> tok.exp, user |-> tok.user,
          groups |-> DeserializeGroups(tok.groups)]

\* VerifyWithKey::verify_with_key(token_str, key): the string must parse,
\* the header must declare the key's algorithm and the tag must match.
VerifyWithKey(tok, key) ==
    IF tok.ctl \/ tok.alg = "garbage" THEN [ok |-> FALSE]
    ELSE IF tok.alg # "HS512" THEN [ok |-> FALSE]
    ELSE IF tok.sig # HmacTag(key, tok.alg, tok.exp, tok.user, tok.groups)
         THEN [ok |-> FALSE]
    ELSE [ok |-> TRUE, exp |-> tok.exp, user |-> tok.user,
          groups |-> DeserializeGroups(tok.groups)]

\* ------------------------------------------------------------- responses
Unauthorized(msg) == [status |-> 401, msg |-> msg]
BadRequest(msg) == [status |-> 400, msg |-> msg]

\* Error::to_string(): the failure's message.
ErrorToString(e) == e.msg

\* The mapper that answers every error kind with 401.
error_to_http_response_all401(e) ==
    [status |-> 401, msg |-> ErrorToString(e)]

\* The mapper that answers every error kind with 500.
error_to_http_response_all500(e) ==
    [status |-> 500, msg |-> ErrorToString(e)]

error_to_http_response(e) ==
    [status |-> IF e.kind = "AuthenticationError" THEN 401 ELSE 500,
     msg |-> ErrorToString(e)]

\* token_validator without the group check.
token_validator_nogroup(key, cred, t) ==
    LET v == VerifyWithKey(cred, key) IN
    IF ~v.ok THEN [ok |-> FALSE, resp |-> Unauthorized(MsgInvalid)]
    ELSE IF v.exp < t THEN [ok |-> FALSE, resp |-> Unauthorized(MsgExpired)]
    ELSE [ok |-> TRUE, claims |-> v]

\* token_validator with the group check ahead of the expiry check.
token_validator_groupfirst(key, cred, t) ==
    LET v == VerifyWithKey(cred, key) IN
    IF ~v.ok THEN [ok |-> FALSE, resp |-> Unauthorized(MsgInvalid)]
    ELSE IF AdminGroup \notin v.groups
         THEN [ok |-> FALSE, resp |-> Unauthorized(MsgNotInGroup)]
    ELSE IF v.exp < t THEN [ok |-> FALSE, resp |-> Unauthorized(MsgExpired)]
    ELSE [ok |-> TRUE, claims |-> v]

\* token_validator without the expiry check.
token_validator_noexp(key, cred, t) ==
    LET v == VerifyWithKey(cred, key) IN
    IF ~v.ok THEN [ok |-> FALSE, resp |-> Unauthorized(MsgInvalid)]
    ELSE IF AdminGroup \in v.groups THEN [ok |-> TRUE, claims |-> v]
    ELSE [ok |-> FALSE, resp |-> Unauthorized(MsgNotInGroup)]

\* token_validator answering a missing group with the invalid-token message.
token_validator_samemsg(key, cred, t) ==
    LET v == VerifyWithKey(cred, key) IN
    IF ~v.ok THEN [ok |-> FALSE, resp |-> Unauthorized(MsgInvalid)]
    ELSE IF v.exp < t THEN [ok |-> FALSE, resp |-> Unauthorized(MsgExpired)]
    ELSE IF AdminGroup \in v.groups THEN [ok |-> TRUE, claims |-> v]
    ELSE [ok |-> FALSE, resp |-> Unauthorized(MsgInvalid)]

\* -------------------------------------------------------------- auth gate
\* token_validator that also asks the backend for the user's present groups.
token_validator_recheck(key, cred, t) ==
    LET v == VerifyWithKey(cred, key) IN
    IF ~v.ok THEN [ok |-> FALSE, resp |-> Unauthorized(MsgInvalid)]
    ELSE IF v.exp < t THEN [ok |-> FALSE, resp |-> Unauthorized(MsgExpired)]
    ELSE IF AdminGroup \in v.groups /\ AdminGroup \in groupsOf[v.user]
         THEN [ok |-> TRUE, claims |-> v]
    ELSE [ok |-> FALSE, resp |-> Unauthorized(MsgNotInGroup)]

\* token_validator that rejects a token already at the instant exp.
token_validator_le(key, cred, t) ==
    LET v == VerifyWithKey(cred, key) IN
    IF ~v.ok THEN [ok |-> FALSE, resp |-> Unauthorized(MsgInvalid)]
    ELSE IF v.exp <= t THEN [ok |-> FALSE, resp |-> Unauthorized(MsgExpired)]
    ELSE IF AdminGroup \in v.groups THEN [ok |-> TRUE, claims |-> v]
    ELSE [ok |-> FALSE, resp |-> Unauthorized(MsgNotInGroup)]

token_validator(key, cred, t) ==
    LET v == VerifyWithKey(cred, key) IN
    IF ~v.ok THEN [ok |-> FALSE, resp |-> Unauthorized(MsgInvalid)]
    ELSE IF v.exp < t THEN [ok |-> FALSE, resp |-> Unauthorized(MsgExpired)]
    ELSE IF AdminGroup \in v.groups THEN [ok |-> TRUE, claims |-> v]
    ELSE [ok |-> FALSE, resp |-> Unauthorized(MsgNotInGroup)]

\* BearerAuth extraction: the Authorization header must be "Bearer <token>".
BearerExtract(hdr) ==
    IF hdr = None THEN None
    ELSE IF hdr[1].scheme # "Bearer" THEN None
    ELSE Some(hdr[1].cred)

\* HeaderValue::from_str(&format!("Bearer {}", value)).
HeaderValueFromStr(scheme, value) ==
    IF value.ctl THEN None ELSE Some([scheme |-> scheme, cred |-> value])

\* The bridge that checks the cookie and then forgets to insert the header.
CookieBridge_drop(req) ==
    IF req.cookie # None
    THEN LET hv == HeaderValueFromStr("Bearer", req.cookie[1]) IN
         IF hv # None
         THEN [fwd |-> TRUE, authorization |-> req.header]
         ELSE [fwd |-> FALSE, authorization |-> req.header]
    ELSE [fwd |-> TRUE, authorization |-> req.header]

\* The bridge that leaves an explicit Authorization header alone.
CookieBridge_keep(req) ==
    IF req.cookie # None /\ req.header = None
    THEN LET hv == HeaderValueFromStr("Bearer", req.cookie[1]) IN
         IF hv # None
         THEN [fwd |-> TRUE, authorization |-> hv]
         ELSE [fwd |-> FALSE, authorization |-> req.header]
    ELSE [fwd |-> TRUE, authorization |-> req.header]

\* The bridge that passes a request with an unencodable cookie on.
CookieBridge_forward(req) ==
    IF req.cookie # None
    THEN LET hv == HeaderValueFromStr("Bearer", req.cookie[1]) IN
         IF hv # None
         THEN [fwd |-> TRUE, authorization |-> hv]
         ELSE [fwd |-> TRUE, authorization |-> req.header]
    ELSE [fwd |-> TRUE, authorization |-> req.header]

\* The wrap_fn closure in front of the /api scope.  fwd says whether the
\* request is passed on to the wrapped service, and with which header.
CookieBridge(req) ==
    IF req.cookie # None
    THEN LET hv == HeaderValueFromStr("Bearer", req.cookie[1]) IN
         IF hv # None
         THEN [fwd |-> TRUE, authorization |-> hv]
         ELSE [fwd |-> FALSE, authorization |-> req.header]
    ELSE [fwd |-> TRUE, authorization |-> req.header]

\* The /api scope: the cookie bridge runs first, then the bearer gate, then
\* the JSON extractor of the /users resource, then user_list_handler.
Ok(v) == [ok |-> TRUE, val |-> v]
Err(e) == [ok |-> FALSE, err |-> e]

BackendErrors ==
    {[kind |-> "AuthenticationError", msg |-> "authentication failed"],
     [kind |-> "DatabaseError", msg |-> "database failed"]}

ListUsersResults == {Ok("users")} \cup {Err(e) : e \in BackendErrors}

user_list_handler(luRes) ==
    IF luRes.ok THEN [status |-> 200, msg |-> "users"]
    ELSE error_to_http_response(luRes.err)

HttpAuthenticationBearer(key, hdr, t) ==
    LET c == BearerExtract(hdr) IN
    IF c = None
    THEN [ok |-> FALSE, resp |-> Unauthorized(""), verifyCalls |-> 0, gate |-> None]
    ELSE LET g == token_validator(key, c[1], t) IN
         IF g.ok
         THEN [ok |-> TRUE, resp |-> Unauthorized(""), verifyCalls |-> 1, gate |-> c]
         ELSE [ok |-> FALSE, resp |-> g.resp, verifyCalls |-> 1, gate |-> c]

\* The scope that lets a request in on the word of its user_id cookie.
ApiScope_trustuser(data, req, t) ==
    LET b == CookieBridge(req) IN
    IF ~b.fwd
    THEN [admitted |-> FALSE, resp |-> BadRequest(MsgBadCookie),
          verifyCalls |-> 0, gate |-> None]
    ELSE LET a == HttpAuthenticationBearer(data.jwt_key, b.authorization, t) IN
         IF ~a.ok /\ req.userId = None
         THEN [admitted |-> FALSE, resp |-> a.resp,
               verifyCalls |-> a.verifyCalls, gate |-> a.gate]
         ELSE IF ~req.bodyOk
         THEN [admitted |-> FALSE, resp |-> BadRequest(MsgBadJson),
               verifyCalls |-> a.verifyCalls, gate |-> a.gate]
         ELSE [admitted |-> TRUE, resp |-> Unauthorized(""),
               verifyCalls |-> a.verifyCalls, gate |-> a.gate]

\* The scope with the JSON extractor run ahead of the authentication
\* middleware.
ApiScope_bodyfirst(data, req, t) ==
    LET b == CookieBridge(req) IN
    IF ~b.fwd
    THEN [admitted |-> FALSE, resp |-> BadRequest(MsgBadCookie),
          verifyCalls |-> 0, gate |-> None]
    ELSE IF ~req.bodyOk
    THEN [admitted |-> FALSE, resp |-> BadRequest(MsgBadJson),
          verifyCalls |-> 0, gate |-> None]
    ELSE LET a == HttpAuthenticationBearer(data.jwt_key, b.authorization, t) IN
         IF ~a.ok
         THEN [admitted |-> FALSE, resp |-> a.resp,
               verifyCalls |-> a.verifyCalls, gate |-> a.gate]
         ELSE [admitted |-> TRUE, resp |-> Unauthorized(""),
               verifyCalls |-> a.verifyCalls, gate |-> a.gate]

\* All that runs before user_list_handler: bridge, gate, JSON extractor.
\* gate is the credential handed to token_validator, if it was called.
ApiScope(data, req, t) ==
    LET b == CookieBridge(req) IN
    IF ~b.fwd
    THEN [admitted |-> FALSE, resp |-> BadRequest(MsgBadCookie),
          verifyCalls |-> 0, gate |-> None]
    ELSE LET a == HttpAuthenticationBearer(data.jwt_key, b.authorization, t) IN
         IF ~a.ok
         THEN [admitted |-> FALSE, resp |-> a.resp,
               verifyCalls |-> a.verifyCalls, gate |-> a.gate]
         ELSE IF ~req.bodyOk
         THEN [admitted |-> FALSE, resp |-> BadRequest(MsgBadJson),
               verifyCalls |-> a.verifyCalls, gate |-> a.gate]
         ELSE [admitted |-> TRUE, resp |-> Unauthorized(""),
               verifyCalls |-> a.verifyCalls, gate |-> a.gate]

\* ------------------------------------------------- what a client can send
Toks == {i.tok : i \in issued}

OtherKey == HmacNewVarkey(OtherSecret)

FarExp == MaxClock + Day + 1

\* A token built by someone who holds another key.
Forged == SignWithKey(OtherKey, "HS512", FarExp, "alice", <<AdminGroup>>)

\* One field of a token changed, the rest, tag included, kept.
Tampered(t) ==
    ({[t EXCEPT !.exp = e] : e \in {0, FarExp}}
     \cup {[t EXCEPT !.user = u] : u \in Users}
     \cup {[t EXCEPT !.groups = <<AdminGroup>>]}
     \cup {[t EXCEPT !.sig = GarbageSig],
           [t EXCEPT !.sig = HmacTag(OtherKey, t.alg, t.exp, t.user, t.groups)],
           [t EXCEPT !.alg = "HS256"]})
    \ {t}

Creds == Toks \cup UNION {Tampered(t) : t \in Toks} \cup {Forged, Garbage}

\* Strings with a byte that no header value can hold; only a cookie, whose
\* value is percent-decoded, can carry one.
CtlCreds == {[c EXCEPT !.ctl = TRUE] : c \in Toks \cup {Garbage}}

PlainCreds == Toks \cup {Garbage}

Bearer(c) == Some([scheme |-> "Bearer", cred |-> c])

Req(h, c, u, b) == [header |-> h, cookie |-> c, userId |-> u, bodyOk |-> b]

\* The other parts of a request: a user_id cookie, a body that does not parse.
Decorations ==
    {[userId |-> None, bodyOk |-> TRUE],
     [userId |-> Some("alice"), bodyOk |-> TRUE],
     [userId |-> None, bodyOk |-> FALSE]}

ApiRequests ==
    {Req(None, None, d.userId, d.bodyOk) : d \in Decorations}
    \cup {Req(Some([scheme |-> "Basic", cred |-> Garbage]), None, None, TRUE)}
    \cup {Req(Bearer(c), None, None, TRUE) : c \in Creds}
    \cup {Req(None, Some(c), None, TRUE) : c \in Creds \cup CtlCreds}
    \cup {Req(None, Some(c), d.userId, d.bodyOk) :
             c \in PlainCreds \cup CtlCreds, d \in Decorations}
    \cup {Req(Bearer(h), Some(c), None, TRUE) :
             h \in PlainCreds, c \in PlainCreds \cup {[Garbage EXCEPT !.ctl = TRUE]}}

\* ------------------------------------------------------------------ init
\* A server where only the first worker uses the configured secret.
AppState_perworker(w, secret) ==
    [jwt_key |-> HmacNewVarkey(IF w = 1 THEN secret ELSE "secret-" \o secret)]

\* The AppState that the factory call of worker w builds from its clone of
\* the configured secret.
AppState(w, secret) == [jwt_key |-> HmacNewVarkey(secret)]

IdleAuth ==
    [pc |-> "idle", name |-> "", key |-> <<>>, bindRes |-> "none",
     bindCalls |-> 0, groupCalls |-> 0]

NoResponse == [kind |-> "none"]

Init ==
    /\ now = 0
    /\ workers = [w \in Workers |-> AppState(w, jwt_secret)]
    /\ groupsOf = [u \in Users |-> IF u = "alice" THEN {AdminGroup, "users"} ELSE {}]
    /\ issued = {}
    /\ auth = IdleAuth
    /\ last = NoResponse

\* ------------------------------------------------------------ environment
\* The clock advances, once the response of this instant has gone out.
Tick ==
    /\ now < MaxClock
    /\ last = NoResponse
    /\ now' = now + 1
    /\ UNCHANGED <<workers, groupsOf, issued, auth, last>>

\* The response that was produced goes out to the client.
Deliver ==
    /\ last # NoResponse
    /\ last' = NoResponse
    /\ UNCHANGED <<now, workers, groupsOf, issued, auth>>

\* The backend's administrator takes alice out of lldap_admin, or puts her
\* back in.
BackendChange ==
    /\ groupsOf' = [groupsOf EXCEPT !["alice"] =
                       IF AdminGroup \in @ THEN @ \ {AdminGroup}
                       ELSE @ \cup {AdminGroup}]
    /\ UNCHANGED <<now, workers, issued, auth, last>>

BindResults == {Ok("bound")} \cup {Err(e) : e \in BackendErrors}

\* What get_user_groups can return for a user.
GroupsResults(name) == {Ok(groupsOf[name])} \cup {Err(e) : e \in BackendErrors}

\* ------------------------------------------------------------- /authorize
\* post_authorize that sets the user_id cookie on the error response too.
post_authorize_map_cookie(key, name, r, order, t) ==
    IF r.ok
    THEN LET token == create_jwt(key, name, r.val, order, t) IN
         [resp |-> [status |-> 200, msg |-> ""],
          body |-> Some(token),
          tokenCookie |-> Some([value |-> token, max_age |-> Day,
                                path |-> "/api", http_only |-> TRUE]),
          userIdCookie |-> Some([value |-> name, max_age |-> Day,
                                 path |-> "", http_only |-> FALSE])]
    ELSE [resp |-> error_to_http_response(r.err),
          body |-> None, tokenCookie |-> None,
          userIdCookie |-> Some([value |-> name, max_age |-> Day,
                                 path |-> "", http_only |-> FALSE])]

\* The tail of post_authorize: the result of bind-then-get_user_groups is
\* mapped to the token response, or to the error response.
post_authorize_map(key, name, r, order, t) ==
    IF r.ok
    THEN LET token == create_jwt(key, name, r.val, order, t) IN
         [resp |-> [status |-> 200, msg |-> ""],
          body |-> Some(token),
          tokenCookie |-> Some([value |-> token, max_age |-> Day,
                                path |-> "/api", http_only |-> TRUE]),
          userIdCookie |-> Some([value |-> name, max_age |-> Day,
                                 path |-> "", http_only |-> FALSE])]
    ELSE [resp |-> error_to_http_response(r.err),
          body |-> None, tokenCookie |-> None, userIdCookie |-> None]

\* Nothing goes out: the extractor's 400 carries no token, a dropped future
\* sends nothing at all.
NoToken(resp) ==
    [resp |-> resp, body |-> None, tokenCookie |-> None, userIdCookie |-> None]

\* What the client sees of one /authorize request, with what the backend
\* had answered.
AuthEvent(kind, name, out, bindRes, groupsRes, a) ==
    [kind |-> kind, name |-> name, resp |-> out.resp, body |-> out.body,
     tokenCookie |-> out.tokenCookie, userIdCookie |-> out.userIdCookie,
     bindRes |-> bindRes, groupsRes |-> groupsRes,
     bindCalls |-> a.bindCalls, groupCalls |-> a.groupCalls]

ResKind(res) == IF res.ok THEN "ok" ELSE res.err.kind

\* POST /authorize arrives at worker w: the JSON extractor runs, then bind
\* is called.
PostAuthorize ==
    /\ auth.pc = "idle"
    /\ Cardinality(issued) < MaxIssued
    /\ \E w \in Workers, name \in Users, bodyOk \in BOOLEAN :
          IF bodyOk
          THEN /\ auth' = [pc |-> "bind", name |-> name, key |-> workers[w].jwt_key,
                           bindRes |-> "pending", bindCalls |-> 1, groupCalls |-> 0]
               /\ UNCHANGED last
          ELSE /\ last = NoResponse
               /\ last' = AuthEvent("authorize", name, NoToken(BadRequest(MsgBadJson)),
                                    "none", "none", IdleAuth)
               /\ UNCHANGED auth
    /\ UNCHANGED <<now, workers, groupsOf, issued>>

\* bind returns, and a failed bind is tried a second time.
BindReturn_retry ==
    /\ auth.pc = "bind"
    /\ \E res \in BindResults :
          IF res.ok
          THEN /\ auth' = [auth EXCEPT !.pc = "groups", !.bindRes = ResKind(res),
                                    !.groupCalls = @ + 1]
               /\ UNCHANGED last
          ELSE IF auth.bindCalls < 2
          THEN /\ auth' = [auth EXCEPT !.bindCalls = @ + 1]
               /\ UNCHANGED last
          ELSE /\ last = NoResponse
               /\ auth' = IdleAuth
               /\ last' = AuthEvent("authorize", auth.name,
                                    post_authorize_map(auth.key, auth.name, res, <<>>, now),
                                    ResKind(res), "none", auth)
    /\ UNCHANGED <<now, workers, groupsOf, issued>>

\* bind returns: on success and_then calls get_user_groups, else the error
\* goes straight to the mapping.
BindReturn ==
    /\ auth.pc = "bind"
    /\ \E res \in BindResults :
          IF res.ok
          THEN /\ auth' = [auth EXCEPT !.pc = "groups", !.bindRes = ResKind(res),
                                    !.groupCalls = @ + 1]
               /\ UNCHANGED last
          ELSE /\ last = NoResponse
               /\ auth' = IdleAuth
               /\ last' = AuthEvent("authorize", auth.name,
                                    post_authorize_map(auth.key, auth.name, res, <<>>, now),
                                    ResKind(res), "none", auth)
    /\ UNCHANGED <<now, workers, groupsOf, issued>>

\* get_user_groups returns: the result is mapped; a token that is sent is
\* remembered in issued.
GroupsReturn ==
    /\ auth.pc = "groups"
    /\ last = NoResponse
    /\ auth' = IdleAuth
    /\ \E res \in GroupsResults(auth.name) :
       \E order \in IF res.ok THEN Serializations(res.val) ELSE {<<>>} :
          LET out == post_authorize_map(auth.key, auth.name, res, order, now) IN
          /\ last' = AuthEvent("authorize", auth.name, out, "ok", ResKind(res), auth)
          /\ issued' = IF out.body = None THEN issued
                       ELSE issued \cup {[tok |-> out.body[1], at |-> now,
                                          user |-> auth.name, bindRes |-> auth.bindRes,
                                          groups |-> res.val]}
    /\ UNCHANGED <<now, workers, groupsOf>>

\* The client goes away while bind or get_user_groups is pending: the future
\* is dropped at its suspension point and nothing is sent.
Abandon ==
    /\ auth.pc \in {"bind", "groups"}
    /\ last = NoResponse
    /\ auth' = IdleAuth
    /\ last' = AuthEvent("abandoned", auth.name, NoToken([status |-> 0, msg |-> ""]),
                         IF auth.pc = "bind" THEN "pending" ELSE "ok",
                         IF auth.pc = "bind" THEN "none" ELSE "pending", auth)
    /\ UNCHANGED <<now, workers, groupsOf, issued>>

\* ------------------------------------------------------------- /api/users
\* The gate with a sliding expiry: an admitted token is re-issued with a
\* fresh day.
ApiRequest_refresh ==
    /\ last = NoResponse
    /\ \E w \in Workers, req \in ApiRequests :
          LET g == ApiScope(workers[w], req, now) IN
          IF g.admitted
          THEN /\ \E luRes \in ListUsersResults :
                    last' = [kind |-> "api", req |-> req, key |-> workers[w].jwt_key,
                             resp |-> user_list_handler(luRes),
                             verifyCalls |-> g.verifyCalls, gate |-> g.gate,
                             handlerCalls |-> 1, listRes |-> luRes]
               /\ issued' = {IF i.tok = g.gate[1]
                             THEN [i EXCEPT !.at = now,
                                            !.tok = create_jwt(workers[w].jwt_key, i.user,
                                                               i.groups, i.tok.groups, now)]
                             ELSE i : i \in issued}
          ELSE /\ last' = [kind |-> "api", req |-> req, key |-> workers[w].jwt_key,
                           resp |-> g.resp,
                           verifyCalls |-> g.verifyCalls, gate |-> g.gate,
                           handlerCalls |-> 0, listRes |-> Ok("none")]
               /\ UNCHANGED issued
    /\ UNCHANGED <<now, workers, groupsOf, auth>>

\* A request to /api/users arrives at worker w and is answered; when it is
\* admitted, user_list_handler calls list_users and maps what it returns.
ApiRequest ==
    /\ last = NoResponse
    /\ \E w \in Workers, req \in ApiRequests :
          LET g == ApiScope(workers[w], req, now) IN
          IF g.admitted
          THEN \E luRes \in ListUsersResults :
                  last' = [kind |-> "api", req |-> req, key |-> workers[w].jwt_key,
                           resp |-> user_list_handler(luRes),
                           verifyCalls |-> g.verifyCalls, gate |-> g.gate,
                           handlerCalls |-> 1, listRes |-> luRes]
          ELSE last' = [kind |-> "api", req |-> req, key |-> workers[w].jwt_key,
                        resp |-> g.resp,
                        verifyCalls |-> g.verifyCalls, gate |-> g.gate,
                        handlerCalls |-> 0, listRes |-> Ok("none")]
    /\ UNCHANGED <<now, workers, groupsOf, issued, auth>>

Next ==
    \/ Tick
    \/ Deliver
    \/ BackendChange
    \/ PostAuthorize
    \/ BindReturn
    \/ GroupsReturn
    \/ Abandon
    \/ ApiRequest

Spec == Init /\ [][Next]_vars

\* ================================================================ claims
\* The vocabulary of the claims, stated on tokens and keys directly.
ProcessKey == HmacNewVarkey(jwt_secret)

Verifies(c, key) ==
    /\ ~c.ctl
    /\ c.alg = "HS512"
    /\ c.sig = HmacTag(key, c.alg, c.exp, c.user, c.groups)

GroupSet(c) == {c.groups[i] : i \in DOMAIN c.groups}

Authorizes(c, key, t) ==
    Verifies(c, key) /\ ~(c.exp < t) /\ AdminGroup \in GroupSet(c)

\* The credentials a request presents: a bearer header, the token cookie.
Presented(req) ==
    (IF req.header # None /\ req.header[1].scheme = "Bearer"
     THEN {req.header[1].cred} ELSE {})
    \cup (IF req.cookie # None THEN {req.cookie[1]} ELSE {})

ApiSeen == last.kind = "api"

GateCalled == last.kind = "api" /\ last.gate # None

\* C1: a request to the /api scope reaches user_list_handler only if a
\* credential it presented verifies against the process-wide key, is not
\* expired and holds lldap_admin; every other request, one without any
\* credential included, gets an error response and never reaches the handler.
C1_AdmittedOnlyWithValidAdminToken ==
    ApiSeen =>
        \/ \E c \in Presented(last.req) : Authorizes(c, ProcessKey, now)
        \/ /\ last.handlerCalls = 0
           /\ last.resp.status \in {400, 401}

C1_Witness ==
    /\ ApiSeen
    /\ last.handlerCalls = 1
    /\ last.req.cookie # None

\* C2: the gate checks signature, then expiry, then group, and the first
\* failing check decides: a token failing verification is answered
\* 'Invalid JWT' whatever its claims, and a verified token that is expired
\* is answered 'Expired JWT' whether or not it holds the group.
C2_FirstFailingCheckWins ==
    GateCalled =>
        LET c == last.gate[1] IN
        /\ ~Verifies(c, ProcessKey) => last.resp = Unauthorized(MsgInvalid)
        /\ (Verifies(c, ProcessKey) /\ c.exp < now) =>
              last.resp = Unauthorized(MsgExpired)

C2_Witness ==
    /\ GateCalled
    /\ Verifies(last.gate[1], ProcessKey)
    /\ last.gate[1].exp < now
    /\ AdminGroup \notin GroupSet(last.gate[1])
    /\ last.resp = Unauthorized(MsgExpired)

\* C3 as stated: every token whose exp is earlier than the current time is
\* answered 401 'Expired JWT'.
C3_Original ==
    (GateCalled /\ last.gate[1].alg # "garbage" /\ last.gate[1].exp < now) =>
        last.resp = Unauthorized(MsgExpired)

\* C3 amended: every token whose exp is earlier than the current time is
\* rejected with 401 and never admitted; the answer is 'Expired JWT' exactly
\* when the signature verifies (lldap_admin in the groups does not help),
\* and 'Invalid JWT' when it does not.
C3_ExpiredAlwaysRejected ==
    (GateCalled /\ last.gate[1].alg # "garbage" /\ last.gate[1].exp < now) =>
        /\ last.handlerCalls = 0
        /\ last.resp.status = 401
        /\ last.resp.msg = (IF Verifies(last.gate[1], ProcessKey)
                            THEN MsgExpired ELSE MsgInvalid)

C3_Witness ==
    /\ GateCalled
    /\ Verifies(last.gate[1], ProcessKey)
    /\ last.gate[1].exp < now
    /\ AdminGroup \in GroupSet(last.gate[1])
    /\ last.resp = Unauthorized(MsgExpired)

\* C4: a verified, unexpired token without lldap_admin (the empty group set
\* included) is rejected with 401, and among the gate's rejections each of
\* the three messages stands for exactly one failure kind.
C4_GroupGateDistinct ==
    GateCalled =>
        LET c == last.gate[1]
            sig == Verifies(c, ProcessKey)
            expired == c.exp < now
            admin == AdminGroup \in GroupSet(c)
        IN
        /\ (sig /\ ~expired /\ ~admin) =>
              (last.handlerCalls = 0 /\ last.resp.status = 401)
        /\ (last.handlerCalls = 0 /\ last.resp.status = 401) =>
              /\ (last.resp.msg = MsgNotInGroup) = (sig /\ ~expired /\ ~admin)
              /\ (last.resp.msg = MsgExpired) = (sig /\ expired)
              /\ (last.resp.msg = MsgInvalid) = ~sig

C4_Witness ==
    /\ GateCalled
    /\ Verifies(last.gate[1], ProcessKey)
    /\ ~(last.gate[1].exp < now)
    /\ GroupSet(last.gate[1]) = {}
    /\ last.resp = Unauthorized(MsgNotInGroup)

\* C5: the token /authorize has just sent verifies under the key of every
\* worker, and the verified claims carry the user name of the request, the
\* group set get_user_groups returned, and an exp that is not in the past.
C5_RoundTrip ==
    (last.kind = "authorize" /\ last.body # None) =>
        \A w \in Workers :
            LET v == VerifyWithKey(last.body[1], workers[w].jwt_key) IN
            /\ v.ok
            /\ v.user = last.name
            /\ ~(v.exp < now)
            /\ \E i \in issued :
                  /\ i.tok = last.body[1]
                  /\ i.at = now
                  /\ i.user = v.user
                  /\ i.groups = v.groups

C5_Witness ==
    /\ last.kind = "authorize"
    /\ last.body # None
    /\ Cardinality(GroupSet(last.body[1])) = 2

\* C6: a credential that is not a token the server sent, such as an issued
\* token with its exp, user, groups, algorithm or tag changed, is answered
\* 401 'Invalid JWT' and never admitted, whatever its claims say.
C6_TamperedIsInvalid ==
    (GateCalled /\ last.gate[1] \notin Toks) =>
        /\ last.handlerCalls = 0
        /\ last.resp = Unauthorized(MsgInvalid)

C6_Witness ==
    /\ GateCalled
    /\ \E t \in Toks :
          /\ ~(t.exp < now)
          /\ AdminGroup \notin GroupSet(t)
          /\ last.gate[1] = [t EXCEPT !.groups = <<AdminGroup>>]
    /\ last.resp = Unauthorized(MsgInvalid)

\* C7: a request with token string T in the token cookie only is answered
\* as the request with T in an Authorization: Bearer header only is, at the
\* same clock value: both admitted, or both rejected with the same response.
C7_CookieHeaderEquivalent ==
    (ApiSeen /\ last.req.header = None /\ last.req.cookie # None
        /\ HeaderValueFromStr("Bearer", last.req.cookie[1]) # None) =>
        LET h == ApiScope([jwt_key |-> last.key],
                          Req(Bearer(last.req.cookie[1]), None,
                              last.req.userId, last.req.bodyOk), now)
        IN
        /\ h.admitted = (last.handlerCalls = 1)
        /\ ~h.admitted => h.resp = last.resp

C7_Witness ==
    /\ ApiSeen
    /\ last.req.header = None
    /\ last.req.cookie # None
    /\ last.handlerCalls = 1

\* C8 as stated: with a token cookie and an explicit bearer header, the
\* header the client sent is what the gate verifies.
C8_Original ==
    (GateCalled /\ last.req.cookie # None /\ last.req.header # None
        /\ last.req.header[1].scheme = "Bearer") =>
        last.gate = Some(last.req.header[1].cred)

\* C8 amended: whenever the request has a token cookie that can be encoded,
\* the gate verifies the cookie's value, an explicit bearer header or not;
\* the client's own header is verified only when there is no token cookie.
C8_CookieReplacesHeader ==
    ApiSeen =>
        /\ (last.req.cookie # None /\ ~last.req.cookie[1].ctl) =>
              last.gate = Some(last.req.cookie[1])
        /\ (last.req.cookie = None /\ last.req.header # None
               /\ last.req.header[1].scheme = "Bearer") =>
              last.gate = Some(last.req.header[1].cred)
        /\ (last.req.cookie = None /\ last.req.header = None) => last.gate = None

C8_Witness ==
    /\ ApiSeen
    /\ last.req.cookie # None
    /\ last.req.header # None
    /\ last.req.header[1].scheme = "Bearer"
    /\ last.req.header[1].cred # last.req.cookie[1]
    /\ Authorizes(last.req.header[1].cred, ProcessKey, now)
    /\ last.gate = Some(last.req.cookie[1])
    /\ last.handlerCalls = 0

\* C9: a request whose token cookie cannot be encoded as a header value is
\* answered 400 by the bridge; the gate is not called and the handler is
\* not reached, also when the cookie holds an otherwise valid token.
C9_MalformedCookieShortCircuit ==
    (ApiSeen /\ last.req.cookie # None /\ last.req.cookie[1].ctl) =>
        /\ last.resp = BadRequest(MsgBadCookie)
        /\ last.verifyCalls = 0
        /\ last.gate = None
        /\ last.handlerCalls = 0

C9_Witness ==
    /\ ApiSeen
    /\ last.req.cookie # None
    /\ last.req.cookie[1].ctl
    /\ Authorizes([last.req.cookie[1] EXCEPT !.ctl = FALSE], ProcessKey, now)
    /\ last.resp.status = 400

\* C10: what /authorize sends carries the token, the token cookie and the
\* user_id cookie together or not at all, and carries them exactly when
\* bind and get_user_groups both succeeded; a request abandoned at either
\* suspension point sends none of them.
C10_IssuanceAllOrNothing ==
    last.kind \in {"authorize", "abandoned"} =>
        LET both == last.bindRes = "ok" /\ last.groupsRes = "ok" IN
        /\ (last.body # None) = both
        /\ (last.tokenCookie # None) = both
        /\ (last.userIdCookie # None) = both
        /\ both => /\ last.kind = "authorize"
                   /\ last.tokenCookie[1].value = last.body[1]
                   /\ last.userIdCookie[1].value = last.name
                   /\ last.body[1] \in Toks

C10_Witness ==
    /\ last.kind = "authorize"
    /\ last.bindRes = "ok"
    /\ last.groupsRes = "DatabaseError"
    /\ last.body = None

\* The backend error of a kind, as bind, get_user_groups and list_users
\* return it.
ErrOfKind(k) == CHOOSE e \in BackendErrors : e.kind = k

AuthorizeSeen == last.kind = "authorize"

BindFailed == AuthorizeSeen /\ last.bindRes \in {"AuthenticationError", "DatabaseError"}

\* C11 as stated: when bind fails the /authorize response is a 401, also
\* when bind failed with a storage fault.
C11_Original ==
    BindFailed => (last.body = None /\ last.resp.status = 401)

\* C11 amended: when bind fails no token and no cookie is produced and the
\* response is bind's error mapped by its kind: 401 for an
\* AuthenticationError, 500 for a DatabaseError.
C11_BindFailureMappedByKind ==
    BindFailed =>
        /\ last.body = None
        /\ last.tokenCookie = None
        /\ last.userIdCookie = None
        /\ last.resp.status = (IF last.bindRes = "AuthenticationError" THEN 401 ELSE 500)

C11_Witness ==
    /\ BindFailed
    /\ last.bindRes = "DatabaseError"
    /\ last.resp.status = 500
    /\ last.body = None

\* C12: a DatabaseError from bind, get_user_groups or list_users is answered
\* 500 with the error's text as body and never 401; an AuthenticationError
\* from any of them is answered 401 with the error's text and never 500.
C12_ErrorMappingKeepsKind ==
    LET Mapped(k) ==
            [status |-> IF k = "DatabaseError" THEN 500 ELSE 401,
             msg |-> ErrorToString(ErrOfKind(k))]
    IN
    /\ BindFailed => last.resp = Mapped(last.bindRes)
    /\ (AuthorizeSeen /\ last.groupsRes \in {"AuthenticationError", "DatabaseError"}) =>
          last.resp = Mapped(last.groupsRes)
    /\ (ApiSeen /\ last.handlerCalls = 1 /\ ~last.listRes.ok) =>
          /\ last.resp = Mapped(last.listRes.err.kind)
          /\ last.resp.msg = ErrorToString(last.listRes.err)

C12_Witness ==
    /\ ApiSeen
    /\ last.handlerCalls = 1
    /\ ~last.listRes.ok
    /\ last.listRes.err.kind = "DatabaseError"
    /\ last.resp.status = 500

\* The gate let the request through to the extractor and the handler.
GatePassed ==
    GateCalled /\ (last.handlerCalls = 1 \/ last.resp = BadRequest(MsgBadJson))

\* C13: the gate's verdict is a function of the token, the key and the
\* current time only: it is the verdict the token's own content gives, and
\* for an issued token that has not expired it is the verdict of the groups
\* looked up at issuance, whatever the backend holds for the user now.
C13_StatelessVerification ==
    GateCalled =>
        /\ GatePassed <=> Authorizes(last.gate[1], last.key, now)
        /\ \A i \in issued :
              (i.tok = last.gate[1] /\ ~(i.tok.exp < now)) =>
                  (GatePassed <=> AdminGroup \in i.groups)

\* A token issued to an administrator is admitted after the backend took
\* the user out of lldap_admin.
C13_Witness ==
    /\ GateCalled
    /\ last.handlerCalls = 1
    /\ \E i \in issued :
          /\ i.tok = last.gate[1]
          /\ AdminGroup \in i.groups
          /\ AdminGroup \notin groupsOf[i.user]

\* C14: the user_id cookie is never read: a request gets the outcome that
\* the same request without a user_id cookie gets, and a request that has a
\* user_id cookie and presents no valid token is rejected.
C14_UserIdCookieIgnored ==
    ApiSeen =>
        LET o == ApiScope([jwt_key |-> last.key],
                          [last.req EXCEPT !.userId = None], now)
        IN
        /\ o.admitted = (last.handlerCalls = 1)
        /\ ~o.admitted => o.resp = last.resp
        /\ o.gate = last.gate
        /\ o.verifyCalls = last.verifyCalls
        /\ (/\ last.req.userId # None
            /\ \A c \in Presented(last.req) : ~Authorizes(c, last.key, now)) =>
              (last.handlerCalls = 0 /\ last.resp.status \in {400, 401})

\* The user_id cookie names the administrator, no token comes along, and
\* the request is answered 401.
C14_Witness ==
    /\ ApiSeen
    /\ last.req.userId = Some("alice")
    /\ AdminGroup \in groupsOf["alice"]
    /\ Presented(last.req) = {}
    /\ last.handlerCalls = 0
    /\ last.resp.status = 401

\* C15 as stated: a 400 is produced before any backend call and before any
\* signature verification or signing, on /authorize and on /api/users.
C15_Original ==
    /\ (ApiSeen /\ last.resp.status = 400) =>
          (last.verifyCalls = 0 /\ last.handlerCalls = 0)
    /\ (AuthorizeSeen /\ last.resp.status = 400) =>
          (last.bindCalls = 0 /\ last.groupCalls = 0 /\ last.body = None)

\* C15 amended: a 400 is produced before any backend call on both
\* endpoints; the 400 for a malformed cookie and the 400 for a malformed
\* /authorize body come before any cryptographic work, while the 400 for a
\* malformed /api/users body comes after the gate has verified the token
\* and accepted it.
C15_BadRequestBeforeBackend ==
    /\ (ApiSeen /\ last.resp.status = 400) =>
          /\ last.handlerCalls = 0
          /\ last.listRes = Ok("none")
          /\ last.resp \in {BadRequest(MsgBadCookie), BadRequest(MsgBadJson)}
    /\ (ApiSeen /\ last.resp = BadRequest(MsgBadCookie)) =>
          (last.verifyCalls = 0 /\ last.gate = None)
    /\ (ApiSeen /\ last.resp = BadRequest(MsgBadJson)) =>
          /\ ~last.req.bodyOk
          /\ last.verifyCalls = 1
          /\ last.gate # None
          /\ Authorizes(last.gate[1], last.key, now)
    /\ (ApiSeen /\ ~last.req.bodyOk /\ last.gate # None
          /\ ~Authorizes(last.gate[1], last.key, now)) =>
          last.resp.status = 401
    /\ (AuthorizeSeen /\ last.resp.status = 400) =>
          /\ last.bindCalls = 0
          /\ last.groupCalls = 0
          /\ last.body = None
          /\ last.tokenCookie = None

\* A malformed body arrives with a valid administrator token: the token is
\* verified, then the 400 goes out and list_users is never called.
C15_Witness ==
    /\ ApiSeen
    /\ last.resp = BadRequest(MsgBadJson)
    /\ last.verifyCalls = 1
    /\ last.handlerCalls = 0
    /\ last.gate[1] \in Toks

\* An /authorize request has ended: answered, or dropped by its client.
AuthorizeEnded == last.kind \in {"authorize", "abandoned"}

\* C16: every /authorize request that the Issuer handles invokes bind
\* exactly once and first, and get_user_groups exactly once when bind
\* succeeded and never when bind failed or is still pending; neither call
\* is repeated. A request whose body the extractor rejects never reaches
\* the Issuer and invokes neither.
C16_IssuanceCallOrder ==
    /\ auth.pc = "idle" => (auth.bindCalls = 0 /\ auth.groupCalls = 0)
    /\ auth.pc = "bind" => (auth.bindCalls = 1 /\ auth.groupCalls = 0)
    /\ auth.pc = "groups" => (auth.bindCalls = 1 /\ auth.groupCalls = 1)
    /\ AuthorizeEnded =>
          /\ last.resp.status = 400 => (last.bindCalls = 0 /\ last.groupCalls = 0)
          /\ last.resp.status # 400 => last.bindCalls = 1
          /\ last.groupCalls = (IF last.bindRes = "ok" THEN 1 ELSE 0)
          /\ last.groupsRes # "none" => last.bindRes = "ok"
          /\ last.body # None => (last.bindRes = "ok" /\ last.groupsRes = "ok")

\* bind was called once and failed, and get_user_groups was not called.
C16_Witness ==
    /\ AuthorizeSeen
    /\ last.bindRes = "AuthenticationError"
    /\ last.bindCalls = 1
    /\ last.groupCalls = 0

\* C17: every issued token carries exp = issuance time + one day; no step
\* changes or removes an issued token, a later issuance for the same user
\* included, and a step that answers an /api/users request issues nothing.
C17_ExpiryFixedAtIssuance ==
    /\ [](\A i \in issued : i.tok.exp = i.at + Day /\ i.at <= now)
    /\ [][/\ issued \subseteq issued'
          /\ (last' # last /\ last'.kind = "api") => issued' = issued]_vars

\* Two tokens were issued to one user at different times, and the older
\* one, a day old, has just been admitted.
C17_Witness ==
    /\ GateCalled
    /\ last.handlerCalls = 1
    /\ \E i, j \in issued :
          /\ i.user = j.user
          /\ i.at < j.at
          /\ i.tok = last.gate[1]
          /\ i.tok.exp = i.at + Day
          /\ j.tok.exp = j.at + Day
          /\ now = i.tok.exp

\* C18: every worker holds the key derived from the one configured secret,
\* in every state; a token issued by any worker passes signature
\* verification at every worker and is never answered 'Invalid JWT'; a token
\* signed under another key is answered 'Invalid JWT'.
C18_KeySharedByWorkers ==
    /\ \A w \in Workers : workers[w].jwt_key = HmacNewVarkey(jwt_secret)
    /\ \A t \in Toks : \A w \in Workers : VerifyWithKey(t, workers[w].jwt_key).ok
    /\ (GateCalled /\ last.gate[1] \in Toks) => last.resp # Unauthorized(MsgInvalid)
    /\ (GateCalled /\ last.gate[1] = Forged) =>
          (last.handlerCalls = 0 /\ last.resp = Unauthorized(MsgInvalid))

\* Two tokens are out, each verifies under the key of each worker, and one
\* of them has just been admitted.
C18_Witness ==
    /\ Cardinality(Toks) = 2
    /\ GateCalled
    /\ last.gate[1] \in Toks
    /\ last.handlerCalls = 1
    /\ \A t \in Toks : \A w \in Workers : Verifies(t, workers[w].jwt_key)

\* C19: a token whose signature verifies is rejected as expired exactly
\* when exp < now; at now = exp it is not rejected as expired: it passes the
\* gate when its groups hold lldap_admin and fails the group check otherwise.
C19_ExpiryBoundaryStrict ==
    (GateCalled /\ Verifies(last.gate[1], last.key)) =>
        LET c == last.gate[1] IN
        /\ (last.resp = Unauthorized(MsgExpired)) <=> (c.exp < now)
        /\ (c.exp = now /\ AdminGroup \in GroupSet(c)) => GatePassed
        /\ (c.exp = now /\ AdminGroup \notin GroupSet(c)) =>
              last.resp = Unauthorized(MsgNotInGroup)

\* An administrator's token is presented at the very instant of its exp and
\* reaches the handler.
C19_Witness ==
    /\ GateCalled
    /\ Verifies(last.gate[1], last.key)
    /\ last.gate[1].exp = now
    /\ AdminGroup \in GroupSet(last.gate[1])
    /\ last.handlerCalls = 1

\* C20: a request that passes the gate presents a token that an earlier
\* /authorize sent out after bind succeeded for the token's user and
\* get_user_groups returned groups holding lldap_admin, no more than one
\* day before; bob, whose groups never hold lldap_admin, obtains tokens and
\* none of them passes the gate.
C20_AdmittedTokenWasIssued ==
    /\ GatePassed =>
          \E i \in issued :
              /\ i.tok = last.gate[1]
              /\ i.user = i.tok.user
              /\ i.bindRes = "ok"
              /\ AdminGroup \in i.groups
              /\ i.at <= now
              /\ now <= i.at + Day
    /\ \A u \in Users :
          (/\ GateCalled
           /\ last.gate[1].user = u
           /\ \A i \in issued : i.user = u => AdminGroup \notin i.groups) => ~GatePassed

\* bob holds a token, and alice's token, issued a day ago when her groups
\* held lldap_admin, has just been admitted.
C20_Witness ==
    /\ GatePassed
    /\ last.handlerCalls = 1
    /\ \E i, j \in issued :
          /\ i.tok = last.gate[1]
          /\ i.bindRes = "ok"
          /\ AdminGroup \in i.groups
          /\ now = i.at + Day
          /\ j.user = "bob"
          /\ j.bindRes = "ok"

====
